---- MODULE Spec2Model ----
(***************************************************************************)
(* Media-server scan coordination of routes/system/media_servers.py:       *)
(* the three scan entry points (trigger_scan, trigger_scan_if_queue_empty, *)
(* trigger_interval_scan), the Redis scan lock they share, the queue       *)
(* inspector queue_is_empty and the configuration accessor.                *)
(*                                                                         *)
(* Every invocation of an entry point is a process that moves through the  *)
(* handler's suspension points: each access to an external collaborator    *)
(* (configuration store, task store, Redis, Jellyfin, Plex) is one step.   *)
(*                                                                         *)
(* Spec      one invocation at a time in an environment that changes under *)
(*           it (configuration, tasks, the key set and deleted by others)  *)
(* SpecRace  NProcs concurrent invocations of the automatic entry points   *)
(* SpecQueue the input space of queue_is_empty                             *)
(* SpecValidate the input space of _validate_media_server_config           *)
(* SpecClient a call of a remote trigger client, request by request        *)
(* SpecUpdate requests to update_media_servers and other document writers  *)
(* SpecAccessor _get_media_server_config on the dict objects it works on   *)
(***************************************************************************)
EXTENDS Integers, FiniteSets, Sequences, TLC

\* ------------------------------------------------------------------ bounds
\* Number of concurrently running invocations (workers / requests).
NProcs == 2
\* Number of task records the task store holds at most (scan coordination).
MaxTasks == 1
\* Number of task records of the queue inspector's input space.
MaxQueueTasks == 2

Procs == 1..NProcs

\* ----------------------------------------------------------- configuration
\* The built-in defaults live in routes/system/config.py, outside this file.
DEFAULT_MEDIA_SERVER_CONFIG ==
    [triggerOnQueueEmpty |-> TRUE,
     intervalEnabled     |-> FALSE,
     jellyfin            |-> [enabled |-> FALSE],
     plex                |-> [enabled |-> FALSE]]

\* The settings objects a stored mediaServers section can hold.
MediaServerConfigs ==
    [triggerOnQueueEmpty : BOOLEAN,
     intervalEnabled     : BOOLEAN,
     jellyfin            : [enabled : BOOLEAN],
     plex                : [enabled : BOOLEAN]]

\* The mediaServers section of the persisted configuration document: absent
\* (or empty), an object, or a value that is no object (a list, a string).
StoredSections ==
    {[shape |-> "absent", value |-> DEFAULT_MEDIA_SERVER_CONFIG],
     [shape |-> "malformed", value |-> DEFAULT_MEDIA_SERVER_CONFIG]}
    \cup {[shape |-> "object", value |-> v] : v \in MediaServerConfigs}

\* _get_media_server_config: the defaults overlaid with the stored section.
\* `ms.items()` raises AttributeError when the section is truthy and no dict.
_get_media_server_config(doc) ==
    [raised |-> doc.shape = "malformed",
     cfg    |-> IF doc.shape = "object"
                THEN [k \in DOMAIN DEFAULT_MEDIA_SERVER_CONFIG |->
                        IF k \in {"jellyfin", "plex"}
                        THEN [f \in DOMAIN DEFAULT_MEDIA_SERVER_CONFIG[k] |->
                                doc.value[k][f]]
                        ELSE doc.value[k]]
                ELSE DEFAULT_MEDIA_SERVER_CONFIG]

\* ------------------------------------------------------------------- tasks
DOWNLOAD_TYPES == {"track", "album", "playlist"}

\* The literal "pending" is missing.
active_statuses_no_pending ==
    {"initializing", "processing", "downloading", "progress",
     "track_progress", "real_time", "retrying", "queued"}

\* ProgressState members of active_statuses, and the literal "pending".
active_statuses ==
    {"initializing", "processing", "downloading", "progress",
     "track_progress", "real_time", "retrying", "queued", "pending"}

\* The queue counts as empty whatever the tasks are.
queue_always_empty(ts) == TRUE

\* queue_is_empty over the list get_all_tasks() returned.
queue_is_empty(ts) ==
    LET download_tasks == {t \in ts : t.download_type \in DOWNLOAD_TYPES}
        blocking == {t \in download_tasks : t.status \in active_statuses}
    IN  IF download_tasks = {} THEN TRUE
        ELSE IF blocking # {} THEN FALSE
        ELSE TRUE

\* Task records of the scan-coordination specification.
ScanTaskTypes == {"album"}
ScanTaskStatuses == {"queued", "complete"}
ScanTaskRecords ==
    [task_id : 1..MaxTasks, download_type : ScanTaskTypes,
     status : ScanTaskStatuses]

\* Task records of the queue inspector's input space: the three download
\* types and another type, every active status, terminal statuses and a
\* status no enumeration knows.
QueueTaskTypes == DOWNLOAD_TYPES \cup {"episode"}
QueueTaskStatuses ==
    {"initializing", "processing", "downloading", "progress",
     "track_progress", "real_time", "retrying", "queued", "pending",
     "complete", "error", "cancelled", "mystery"}
\* The record of task id under the pair tv = <<download_type, status>>.
QueueTask(id, tv) ==
    [task_id |-> id, download_type |-> tv[1], status |-> tv[2]]

\* ------------------------------------------------------------------- state
VARIABLES
    stored,   \* the mediaServers section of the configuration document
    tasks,    \* the task store: a set of task records, one per task_id
    lock,     \* the Redis key media_scan:scan_in_progress
    proc,     \* the invocations
    vcall,    \* a call of _validate_media_server_config: argument and result
    net,      \* a call of a remote trigger client: argument, requests, result
    rest,     \* the other keys of the configuration document
    upd,      \* a request to update_media_servers: body, locals, response
    heap,     \* the dict objects the configuration accessor works on
    acc       \* a call of _get_media_server_config: its result

\* The state of the components that are examined on their own.
unitVars == <<vcall, net, rest, upd, heap, acc>>

\* The state of the scan coordination.
scanVars == <<stored, tasks, lock, proc>>

vars == <<stored, tasks, lock, proc, unitVars>>

Kinds == {"manual", "queue_empty", "interval"}
Automatic == {"queue_empty", "interval"}

\* An invocation before its first statement. ms_cfg and SCAN_LOCK_KEY are its
\* local variables; acq, jelly, plex, del and ret record what it did (the
\* answer of SET NX, the outcome of each trigger client, the outcome of the
\* delete, how it ended); lost is set when the key it set was removed by
\* something else than its own release.
IdleProc ==
    [pc            |-> "idle",
     kind          |-> "none",
     ms_cfg        |-> DEFAULT_MEDIA_SERVER_CONFIG,
     SCAN_LOCK_KEY |-> "unset",
     acq           |-> "none",
     jelly         |-> "none",
     plex          |-> "none",
     del           |-> "none",
     ret           |-> "none",
     lost          |-> FALSE]

\* The key is absent. owner names the running invocation that set the key
\* (0: none, or one that has ended and whose process runs something else).
FreeLock == [held |-> FALSE, owner |-> 0]

\* No call of the component has been made.
NoCall == [made |-> FALSE]

\* What the other keys of the configuration document hold, one after the
\* other as their writers change them.
OtherKeys == <<"settings", "settings changed">>

\* No component is examined on its own.
UnitsIdle ==
    /\ vcall = NoCall
    /\ net = NoCall
    /\ rest = OtherKeys[1]
    /\ upd = NoCall
    /\ heap = <<>>
    /\ acc = NoCall

Init ==
    /\ stored \in StoredSections
    /\ tasks = {}
    /\ lock = FreeLock
    /\ proc = [i \in Procs |-> IdleProc]
    /\ UnitsIdle

\* The invocation returns (or raises): its locals are gone.
Finish(p, r) ==
    [p EXCEPT !.pc = "done", !.ret = r,
              !.ms_cfg = DEFAULT_MEDIA_SERVER_CONFIG,
              !.SCAN_LOCK_KEY = "unset", !.lost = FALSE]

\* ------------------------------------------------------- steps of a handler
\* No entry point is gated.
GateFlagUngated(k, cfg) == TRUE

\* The interval entry point still tests triggerOnQueueEmpty as well.
GateFlagIntervalNeedsBoth(k, cfg) ==
    CASE k = "queue_empty" -> cfg.triggerOnQueueEmpty
      [] k = "interval"    -> cfg.intervalEnabled /\ cfg.triggerOnQueueEmpty
      [] OTHER             -> TRUE

\* The configuration flag an entry point is gated on.
GateFlag(k, cfg) ==
    CASE k = "queue_empty" -> cfg.triggerOnQueueEmpty
      [] k = "interval"    -> cfg.intervalEnabled
      [] OTHER             -> TRUE

\* The manual scan checks the queue like the automatic ones.
AfterGateAlwaysQueue(k) == "queue"

\* The statement after the gate: the queue check, or for the manual scan the
\* Jellyfin trigger.
AfterGate(k) == IF k \in Automatic THEN "queue" ELSE "jelly"

\* ms_cfg = _get_media_server_config() and the flag test.
ReadConfigStep(p, doc) ==
    LET r == _get_media_server_config(doc) IN
    IF r.raised THEN Finish(p, "raised")
    ELSE IF ~GateFlag(p.kind, r.cfg) THEN Finish(p, "false")
    ELSE [p EXCEPT !.pc = AfterGate(p.kind), !.ms_cfg = r.cfg]

\* if not queue_is_empty(): return False
QueueCheckStep(p, ts) ==
    IF queue_is_empty(ts) THEN [p EXCEPT !.pc = "lock"] ELSE Finish(p, "false")

\* SET without NX: the key is overwritten whoever holds it.
SetIgnoresNx(l) == TRUE

\* redis SET key value NX EX 300: the key is set only when it is absent.
SetNxSucceeds(l) == ~l.held

\* The refused caller goes on to the trigger calls.
OnLockHeldProceed(p) == [p EXCEPT !.acq = "held", !.pc = "jelly"]

\* What the entry point does when SET NX answers that the key exists.
OnLockHeld(p) == Finish([p EXCEPT !.acq = "held"], "false")

\* The key name is kept after a store error.
KeyKeptAfterStoreError == "name"

\* SCAN_LOCK_KEY after the lock store raised on the acquire attempt.
KeyAfterStoreError == "None"

\* redis_client.set(SCAN_LOCK_KEY, ..., nx=True, ex=300) and its three ends:
\* the store raises, the key is set, the key exists.
AcquireStep(i, p0, l, answer) ==
    LET p == [p0 EXCEPT !.SCAN_LOCK_KEY = "name"] IN
    IF answer = "error"
    THEN [p    |-> [p EXCEPT !.acq = "error", !.pc = "jelly",
                             !.SCAN_LOCK_KEY = KeyAfterStoreError],
          lock |-> l]
    ELSE IF SetNxSucceeds(l)
    THEN [p    |-> [p EXCEPT !.acq = "ok", !.pc = "jelly"],
          lock |-> [held |-> TRUE, owner |-> i]]
    ELSE [p |-> OnLockHeld(p), lock |-> l]

\* Where an entry point continues after a trigger client raised: the
\* automatic ones return False through their finally block, trigger_scan
\* raises to its caller.
AfterTriggerFailure(p) ==
    IF p.kind \in Automatic
    THEN [p EXCEPT !.pc = "release", !.ret = "false"]
    ELSE Finish(p, "error")

\* Where an entry point continues after a trigger client returned from
\* _trigger_jellyfin_scan.
AfterJellyfin(p) == [p EXCEPT !.pc = "plex"]

\* await _trigger_jellyfin_scan(ms_cfg); o is the server's answer.
JellyfinStep(p, o) ==
    IF ~p.ms_cfg.jellyfin.enabled
    THEN AfterJellyfin([p EXCEPT !.jelly = "skipped"])
    ELSE IF o = "triggered"
    THEN AfterJellyfin([p EXCEPT !.jelly = o])
    ELSE AfterTriggerFailure([p EXCEPT !.jelly = o])

\* Where an entry point continues after both trigger clients returned.
AfterTriggers(p) ==
    IF p.kind \in Automatic
    THEN [p EXCEPT !.pc = "release", !.ret = "true"]
    ELSE Finish(p, "response")

\* await _trigger_plex_scan(ms_cfg); o is the server's answer.
PlexStep(p, o) ==
    IF ~p.ms_cfg.plex.enabled
    THEN AfterTriggers([p EXCEPT !.plex = "skipped"])
    ELSE IF o = "triggered"
    THEN AfterTriggers([p EXCEPT !.plex = o])
    ELSE AfterTriggerFailure([p EXCEPT !.plex = o])

\* The delete sits at the end of the try block instead of in a finally block.
ShouldDeleteOnSuccess(p) == p.SCAN_LOCK_KEY # "None" /\ p.ret = "true"

\* finally: if SCAN_LOCK_KEY:
ShouldDelete(p) == p.SCAN_LOCK_KEY # "None"

\* The finally block: redis_client.delete(SCAN_LOCK_KEY), whose exception is
\* swallowed, then the return.
ReleaseStep(p, l, o) ==
    IF ShouldDelete(p)
    THEN [p    |-> Finish([p EXCEPT !.del = o], p.ret),
          lock |-> IF o = "ok" THEN FreeLock ELSE l]
    ELSE [p |-> Finish(p, p.ret), lock |-> l]

TriggerOutcomes == {"triggered", "failed"}
StoreOutcomes == {"ok", "error"}

\* ----------------------------------------------------------------- actions
\* A scheduler or a request starts an invocation of an entry point.
Start(i, k) ==
    /\ proc[i].pc \in {"idle", "done"}
    /\ proc' = [proc EXCEPT ![i] = [IdleProc EXCEPT !.pc = "cfg", !.kind = k]]
    /\ lock' = IF lock.owner = i THEN [lock EXCEPT !.owner = 0] ELSE lock
    /\ UNCHANGED <<stored, tasks, unitVars>>

ReadConfig(i) ==
    /\ proc[i].pc = "cfg"
    /\ proc' = [proc EXCEPT ![i] = ReadConfigStep(@, stored)]
    /\ UNCHANGED <<stored, tasks, lock, unitVars>>

QueueCheck(i) ==
    /\ proc[i].pc = "queue"
    /\ proc' = [proc EXCEPT ![i] = QueueCheckStep(@, tasks)]
    /\ UNCHANGED <<stored, tasks, lock, unitVars>>

AcquireLock(i) ==
    /\ proc[i].pc = "lock"
    /\ \E answer \in {"reply", "error"} :
        LET r == AcquireStep(i, proc[i], lock, answer) IN
        /\ proc' = [proc EXCEPT ![i] = r.p]
        /\ lock' = r.lock
    /\ UNCHANGED <<stored, tasks, unitVars>>

JellyfinCall(i) ==
    /\ proc[i].pc = "jelly"
    /\ \E o \in TriggerOutcomes :
        proc' = [proc EXCEPT ![i] = JellyfinStep(@, o)]
    /\ UNCHANGED <<stored, tasks, lock, unitVars>>

PlexCall(i) ==
    /\ proc[i].pc = "plex"
    /\ \E o \in TriggerOutcomes :
        proc' = [proc EXCEPT ![i] = PlexStep(@, o)]
    /\ UNCHANGED <<stored, tasks, lock, unitVars>>

\* The key set by the running invocation o is removed by something else than
\* o's own release.
MarkLost(pr, o) ==
    IF o \in Procs /\ pr[o].pc # "done" THEN [pr EXCEPT ![o].lost = TRUE] ELSE pr

ReleaseLock(i) ==
    /\ proc[i].pc = "release"
    /\ \E o \in StoreOutcomes :
        LET r  == ReleaseStep(proc[i], lock, o)
            pr == [proc EXCEPT ![i] = r.p]
        IN  /\ lock' = r.lock
            /\ proc' = IF lock.held /\ ~r.lock.held /\ lock.owner # i
                       THEN MarkLost(pr, lock.owner) ELSE pr
    /\ UNCHANGED <<stored, tasks, unitVars>>

\* SET without EX: the key stays until it is deleted.
KeyPersists(l) == FALSE

\* ex=300: a key that is set carries its expiry from the SET that created it.
KeyExpires(l) == l.held

\* The 300-second expiry of the key elapses.
LockExpire ==
    /\ KeyExpires(lock)
    /\ lock' = FreeLock
    /\ proc' = MarkLost(proc, lock.owner)
    /\ UNCHANGED <<stored, tasks, unitVars>>

\* The download subsystem creates a task, changes its status or removes it.
TaskChange ==
    /\ \E id \in 1..MaxTasks :
        LET others == {t \in tasks : t.task_id # id} IN
        \E new \in {others} \cup {others \cup {r} :
                        r \in {x \in ScanTaskRecords : x.task_id = id}} :
            /\ new # tasks
            /\ tasks' = new
    /\ UNCHANGED <<stored, lock, proc, unitVars>>

\* The configuration document is rewritten (by update_media_servers or by
\* another writer of the document).
ConfigWrite ==
    /\ \E doc \in StoredSections : doc # stored /\ stored' = doc
    /\ UNCHANGED <<tasks, lock, proc, unitVars>>

\* An invocation in another application instance acquires the key.
OtherInstanceSet ==
    /\ SetNxSucceeds(lock)
    /\ lock' = [held |-> TRUE, owner |-> 0]
    /\ UNCHANGED <<stored, tasks, proc, unitVars>>

\* An invocation in another application instance deletes the key in its
\* finally block.
OtherInstanceDelete ==
    /\ lock.held
    /\ lock' = FreeLock
    /\ proc' = MarkLost(proc, lock.owner)
    /\ UNCHANGED <<stored, tasks, unitVars>>

\* The invocation the single-invocation specification follows.
Followed == {1}

Next ==
    \/ \E i \in Followed, k \in Kinds : Start(i, k)
    \/ \E i \in Followed : ReadConfig(i)
    \/ \E i \in Followed : QueueCheck(i)
    \/ \E i \in Followed : AcquireLock(i)
    \/ \E i \in Followed : JellyfinCall(i)
    \/ \E i \in Followed : PlexCall(i)
    \/ \E i \in Followed : ReleaseLock(i)
    \/ OtherInstanceSet
    \/ OtherInstanceDelete
    \/ LockExpire
    \/ TaskChange
    \/ ConfigWrite

\* One invocation of an entry point at a time, in an environment that changes
\* under it: the configuration, the tasks, and the key, which invocations of
\* other instances set and delete.
Spec == Init /\ [][Next]_vars

\* --------------------------------------------------- concurrent invocations
\* The task lists the task store can hold.
TaskLists ==
    {ts \in SUBSET ScanTaskRecords :
        \A a, b \in ts : a.task_id = b.task_id => a = b}

\* Any configuration and any task list, which stay as they are while the
\* invocations race.
InitRace ==
    /\ stored \in StoredSections
    /\ tasks \in TaskLists
    /\ lock = FreeLock
    /\ proc = [i \in Procs |-> IdleProc]
    /\ UnitsIdle

NextRace ==
    \/ \E i \in Procs, k \in Automatic : Start(i, k)
    \/ \E i \in Procs : ReadConfig(i)
    \/ \E i \in Procs : QueueCheck(i)
    \/ \E i \in Procs : AcquireLock(i)
    \/ \E i \in Procs : JellyfinCall(i)
    \/ \E i \in Procs : PlexCall(i)
    \/ \E i \in Procs : ReleaseLock(i)
    \/ LockExpire

\* NProcs concurrent invocations of the two automatic entry points.
SpecRace == InitRace /\ [][NextRace]_vars

\* ------------------------------------------------- the expiry of the key
\* The worker running invocation i dies, or is killed, in the middle of the
\* entry point: nothing of it runs any more, its finally block included.
Crash(i) ==
    /\ proc[i].pc \notin {"idle", "done"}
    /\ proc' = [proc EXCEPT ![i] = Finish(@, "crashed")]
    /\ UNCHANGED <<stored, tasks, lock, unitVars>>

\* Any configuration, no download task.
InitExpiry ==
    /\ stored \in StoredSections
    /\ tasks = {}
    /\ lock = FreeLock
    /\ proc = [i \in Procs |-> IdleProc]
    /\ UnitsIdle

NextExpiry ==
    \/ \E i \in Followed, k \in Automatic : Start(i, k)
    \/ \E i \in Followed : ReadConfig(i)
    \/ \E i \in Followed : QueueCheck(i)
    \/ \E i \in Followed : AcquireLock(i)
    \/ \E i \in Followed : JellyfinCall(i)
    \/ \E i \in Followed : PlexCall(i)
    \/ \E i \in Followed : ReleaseLock(i)
    \/ \E i \in Followed : Crash(i)
    \/ OtherInstanceSet
    \/ OtherInstanceDelete
    \/ LockExpire

\* Automatic invocations that may stop or die at any statement, and the key
\* store, which alone is sure to act: it removes a key whose expiry elapsed.
SpecExpiry == InitExpiry /\ [][NextExpiry]_vars /\ WF_vars(LockExpire)

\* ------------------------------------------- the queue inspector's inputs
\* Both flags on, so that every automatic invocation reaches the queue check;
\* the task store holds any list of MaxQueueTasks records at most.
InitQueue ==
    /\ stored = [shape |-> "object",
                 value |-> [triggerOnQueueEmpty |-> TRUE,
                            intervalEnabled     |-> TRUE,
                            jellyfin            |-> [enabled |-> FALSE],
                            plex                |-> [enabled |-> FALSE]]]
    /\ \E S \in SUBSET (1..MaxQueueTasks) :
        \E f \in [S -> QueueTaskTypes \X QueueTaskStatuses] :
            tasks = {QueueTask(id, f[id]) : id \in S}
    /\ lock = FreeLock
    /\ proc = [i \in Procs |-> IdleProc]
    /\ UnitsIdle

NextQueue ==
    \/ \E k \in Automatic : Start(1, k)
    \/ ReadConfig(1)
    \/ QueueCheck(1)

SpecQueue == InitQueue /\ [][NextQueue]_vars

\* ------------------------------------------------------------ the validator
\* Most blanks a url carries on either side.
MaxPad == 1

\* Values of the key intervalSeconds in a request body: the key is absent, or
\* null, an integer, a float (n holds tenths: 599 is 59.9), a string that is
\* an integer literal, or any other text.
IntervalValues ==
    {[k |-> "absent", n |-> 0], [k |-> "null", n |-> 0],
     [k |-> "text", n |-> 0]}
    \cup {[k |-> "int", n |-> n] : n \in {59, 60}}
    \cup {[k |-> "float", n |-> n] : n \in {599, 605}}
    \cup {[k |-> "intstr", n |-> n] : n \in {30}}

\* Values of the key url of a server entry: absent, null, a number, or a
\* string, which is lead blanks, then text that begins with scheme, then
\* trail blanks.
UrlSchemes == {"http://", "https://", "other", ""}
UrlValues ==
    {[k |-> "absent", lead |-> 0, scheme |-> "", trail |-> 0],
     [k |-> "null", lead |-> 0, scheme |-> "", trail |-> 0],
     [k |-> "number", lead |-> 0, scheme |-> "", trail |-> 0]}
    \cup [k : {"str"}, lead : 0..MaxPad, scheme : UrlSchemes, trail : 0..1]

\* Values of the key apiKey: absent, the empty string, a key.
ApiKeyValues == {"absent", "empty", "key"}

\* Values of the keys jellyfin and plex: absent, null, a text (no object), or
\* an object, whose key enabled is absent, true or false.
NoUrl == [k |-> "absent", lead |-> 0, scheme |-> "", trail |-> 0]
ServerValues ==
    [k : {"absent", "null", "text"}, enabled : {"absent"}, url : {NoUrl},
     apiKey : {"absent"}]
    \cup [k : {"object"}, enabled : {"absent", "true", "false"},
          url : UrlValues, apiKey : ApiKeyValues]

\* The request bodies that are objects.
RequestBodies ==
    [intervalSeconds : IntervalValues, jellyfin : ServerValues,
     plex : ServerValues]

\* int(x): the integer, or [raised] for null (TypeError) and for text that is
\* no integer literal (ValueError). A float is truncated towards zero.
int(x) ==
    CASE x.k = "int"    -> [raised |-> FALSE, n |-> x.n]
      [] x.k = "intstr" -> [raised |-> FALSE, n |-> x.n]
      [] x.k = "float"  -> [raised |-> FALSE,
                            n |-> IF x.n >= 0 THEN x.n \div 10
                                  ELSE -((-x.n) \div 10)]
      [] OTHER          -> [raised |-> TRUE, n |-> 0]

\* The bound itself is refused.
IntervalTooSmallInclusive(n) == n <= 60

\* if interval_seconds < 60:
IntervalTooSmall(n) == n < 60

\* str.strip(): the blanks on both sides are gone.
strip(u) == [u EXCEPT !.lead = 0, !.trail = 0]

\* url.startswith("http://") or url.startswith("https://")
startswith_http(u) == u.lead = 0 /\ u.scheme \in {"http://", "https://"}

\* The body of the loop over ("jellyfin", "plex") for one server_key: "" when
\* the loop goes on, the message it returns with, or "raise" when a statement
\* of it raises (srv.get on a text, url.strip on a number).
ValidateServer(server_key, entry) ==
    IF entry.k = "text" THEN "raise"
    ELSE IF entry.k # "object" \/ entry.enabled # "true" THEN ""
    ELSE IF entry.url.k = "number" THEN "raise"
    ELSE LET url == strip(IF entry.url.k = "str" THEN entry.url ELSE NoUrl) IN
         IF ~startswith_http(url)
         THEN IF server_key = "jellyfin"
              THEN "jellyfin url must start with http:// or https://"
              ELSE "plex url must start with http:// or https://"
         ELSE IF entry.apiKey \in {"absent", "empty"}
         THEN IF server_key = "jellyfin"
              THEN "jellyfin apiKey required when enabled"
              ELSE "plex apiKey required when enabled"
         ELSE ""

\* The result of a validation that ends with message m ("" : passed).
Verdict(m) ==
    IF m = "" THEN [ok |-> TRUE, msg |-> ""]
    ELSE IF m = "raise" THEN [ok |-> FALSE, msg |-> "Validation error"]
    ELSE [ok |-> FALSE, msg |-> m]

\* _validate_media_server_config(ms_cfg) -> (ok, msg). The message of the
\* except clause is "Validation error: " and the text of the exception.
_validate_media_server_config(ms_cfg) ==
    LET given == ms_cfg.intervalSeconds
        interval_seconds ==
            IF given.k = "absent" THEN [raised |-> FALSE, n |-> 3600]
            ELSE int(given)
        j == ValidateServer("jellyfin", ms_cfg.jellyfin)
        p == ValidateServer("plex", ms_cfg.plex)
    IN  IF interval_seconds.raised THEN Verdict("raise")
        ELSE IF IntervalTooSmall(interval_seconds.n)
        THEN Verdict("intervalSeconds must be >= 60")
        ELSE IF j # "" THEN Verdict(j)
        ELSE Verdict(p)

\* A caller validates a body.
Validate ==
    /\ ~vcall.made
    /\ \E body \in RequestBodies :
        LET r == _validate_media_server_config(body) IN
        vcall' = [made |-> TRUE, ms_cfg |-> body, ok |-> r.ok, msg |-> r.msg]
    /\ UNCHANGED <<scanVars, net, rest, upd, heap, acc>>

InitValidate ==
    /\ stored = [shape |-> "absent", value |-> DEFAULT_MEDIA_SERVER_CONFIG]
    /\ tasks = {}
    /\ lock = FreeLock
    /\ proc = [i \in Procs |-> IdleProc]
    /\ UnitsIdle

NextValidate == Validate

\* The validator applied to every request body.
SpecValidate == InitValidate /\ [][NextValidate]_vars


\* ------------------------------------------------ the remote trigger clients
\* Most characters of librarySectionIds.
MaxSectionChars == 3

\* The characters of librarySectionIds: the comma, the blank, two digits.
SectionChars == {",", " ", "1", "2"}

\* The strings of MaxSectionChars characters at most.
SectionStrings == UNION {[1..n -> SectionChars] : n \in 0..MaxSectionChars}

\* Values of plex.librarySectionIds: absent, null, a string, or a list.
NoString == <<>>
SectionValues ==
    {[k |-> "absent", s |-> NoString], [k |-> "null", s |-> NoString],
     [k |-> "list", s |-> NoString]}
    \cup {[k |-> "str", s |-> s] : s \in SectionStrings}

\* Values of the key url as the clients use it: absent, a number, a string.
ClientUrls == {"absent", "number", "str"}

\* The jellyfin and plex entries of the ms_cfg a client is called with.
ClientEntries(sections) ==
    [k : {"absent", "null", "text"}, enabled : {"absent"}, url : {"absent"},
     librarySectionIds : {[k |-> "absent", s |-> NoString]}]
    \cup [k : {"object"}, enabled : {"absent", "true", "false"},
          url : ClientUrls, librarySectionIds : sections]

ClientConfigs ==
    [jellyfin : ClientEntries({[k |-> "absent", s |-> NoString]}),
     plex     : ClientEntries(SectionValues)]

\* str.split(","): the pieces between the commas, the empty ones included.
RECURSIVE split(_)
split(s) ==
    IF \A n \in DOMAIN s : s[n] # "," THEN <<s>>
    ELSE LET n == CHOOSE c \in DOMAIN s :
                    s[c] = "," /\ \A d \in 1..(c - 1) : s[d] # ","
         IN  <<SubSeq(s, 1, n - 1)>> \o split(SubSeq(s, n + 1, Len(s)))

\* s.strip() of a piece: the blanks on both sides are gone.
RECURSIVE strip_piece(_)
strip_piece(s) ==
    IF s # <<>> /\ s[1] = " " THEN strip_piece(Tail(s))
    ELSE IF s # <<>> /\ s[Len(s)] = " "
    THEN strip_piece(SubSeq(s, 1, Len(s) - 1))
    ELSE s

\* [s.strip() for s in sections_raw.split(",") if s.strip()]
RECURSIVE keep_stripped(_)
keep_stripped(pieces) ==
    IF pieces = <<>> THEN <<>>
    ELSE LET sid == strip_piece(Head(pieces)) IN
         (IF sid # <<>> THEN <<sid>> ELSE <<>>) \o keep_stripped(Tail(pieces))

section_ids(sections_raw) == keep_stripped(split(sections_raw))

\* The section every library is refreshed through.
AllSections == <<"all">>

\* for res in results: if res["status"] >= 400: raise ...
RECURSIVE first_failure(_)
first_failure(results) ==
    IF results = <<>> THEN [found |-> FALSE]
    ELSE IF Head(results).status >= 400
    THEN [found |-> TRUE, section |-> Head(results).section,
          status |-> Head(results).status]
    ELSE first_failure(Tail(results))

\* What a server answers to a request: a status, or the request raises
\* (timeout, connection refused).
Statuses == {200, 404, 500}
Responses == {[raised |-> TRUE, status |-> 0]}
             \cup {[raised |-> FALSE, status |-> st] : st \in Statuses}

\* The flag is not looked at.
enabled_whatever(entry) == entry.k = "object"

\* jelly.get("enabled"), plex.get("enabled") of an entry that is absent, null
\* or an object.
enabled(entry) == entry.k = "object" /\ entry.enabled = "true"

\* A client that has just been called with ms_cfg.
ClientCalled(client, ms_cfg) ==
    [made |-> TRUE, client |-> client, ms_cfg |-> ms_cfg, pc |-> "done",
     todo |-> <<>>, log |-> <<>>, results |-> <<>>, out |-> "none",
     section |-> NoString, status |-> 0]

\* The client until its first request: _trigger_jellyfin_scan lines 83-88,
\* _trigger_plex_scan lines 97-104. A statement that raises ends the call.
client_start(client, ms_cfg) ==
    LET c     == ClientCalled(client, ms_cfg)
        entry == ms_cfg[client]
    IN  IF entry.k = "text" THEN [c EXCEPT !.out = "raised"]
        ELSE IF ~enabled(entry) THEN [c EXCEPT !.out = "skipped"]
        ELSE IF entry.url # "str" THEN [c EXCEPT !.out = "raised"]
        ELSE IF client = "jellyfin"
        THEN [c EXCEPT !.pc = "request", !.todo = <<<<"Library/Refresh">>>>]
        ELSE IF entry.librarySectionIds.k = "list"
        THEN [c EXCEPT !.out = "raised"]
        ELSE LET ids == section_ids(entry.librarySectionIds.s) IN
             [c EXCEPT !.pc = "request",
                       !.todo = IF ids # <<>> THEN ids ELSE <<AllSections>>]

\* The rest of the call after the last response: Jellyfin lines 91-93, Plex
\* lines 117-120.
client_end(c) ==
    LET f == first_failure(c.results) IN
    IF f.found
    THEN [c EXCEPT !.pc = "done", !.out = "error502",
                   !.section = f.section, !.status = f.status]
    ELSE [c EXCEPT !.pc = "done", !.out = "triggered"]

\* One request: r = await client.post(url) or r = await client.get(url),
\* answered by resp, and the statements up to the next request.
client_request(c, resp) ==
    LET sent == [c EXCEPT !.log = Append(@, Head(c.todo)), !.todo = Tail(@)]
    IN  IF resp.raised THEN [sent EXCEPT !.pc = "done", !.out = "raised"]
        ELSE LET got == [sent EXCEPT !.results =
                            Append(@, [section |-> Head(c.todo),
                                       status  |-> resp.status])]
             IN  IF got.todo = <<>> THEN client_end(got) ELSE got

\* An entry point calls a trigger client with the configuration it read.
ClientStart ==
    /\ ~net.made
    /\ \E client \in {"jellyfin", "plex"}, ms_cfg \in ClientConfigs :
        net' = client_start(client, ms_cfg)
    /\ UNCHANGED <<scanVars, vcall, rest, upd, heap, acc>>

\* The client issues its next request and the server answers.
ClientRequest ==
    /\ net.made /\ net.pc = "request"
    /\ \E resp \in Responses : net' = client_request(net, resp)
    /\ UNCHANGED <<scanVars, vcall, rest, upd, heap, acc>>

InitClient ==
    /\ stored = [shape |-> "absent", value |-> DEFAULT_MEDIA_SERVER_CONFIG]
    /\ tasks = {}
    /\ lock = FreeLock
    /\ proc = [i \in Procs |-> IdleProc]
    /\ UnitsIdle

NextClient == ClientStart \/ ClientRequest

\* A call of _trigger_jellyfin_scan or _trigger_plex_scan, request by request.
SpecClient == InitClient /\ [][NextClient]_vars


\* ------------------------------------------------------ the update endpoint
\* The bodies of the update requests: text that is no JSON, JSON that is no
\* object, and objects.
NoServer ==
    [k |-> "absent", enabled |-> "absent", url |-> NoUrl, apiKey |-> "absent"]
UpdateObjects ==
    [intervalSeconds : {[k |-> "absent", n |-> 0], [k |-> "int", n |-> 59],
                        [k |-> "int", n |-> 60], [k |-> "text", n |-> 0]},
     jellyfin : {NoServer,
                 [k |-> "object", enabled |-> "true", apiKey |-> "key",
                  url |-> [k |-> "str", lead |-> 0, scheme |-> "http://",
                           trail |-> 0]],
                 [k |-> "object", enabled |-> "true", apiKey |-> "empty",
                  url |-> [k |-> "str", lead |-> 0, scheme |-> "http://",
                           trail |-> 0]]},
     plex : {NoServer, [k |-> "text", enabled |-> "absent", url |-> NoUrl,
                        apiKey |-> "absent"]}]
UpdateBodies ==
    {[json |-> "invalid", value |-> NoServer],
     [json |-> "other", value |-> NoServer]}
    \cup {[json |-> "object", value |-> b] : b \in UpdateObjects}

\* The request is accepted whatever the validator says.
accept(verdict) == TRUE

\* if not valid: raise HTTPException(status_code=400, detail=msg)
valid(verdict) == verdict.ok

\* save_config(full_cfg) writes the document it is given, whatever the store
\* holds by now.
save_document(full_cfg) == full_cfg

\* update_media_servers from the request to the call of save_config (lines
\* 60-70 and the except clauses): doc is what get_config() returns.
update_start(body, doc) ==
    LET u == [made |-> TRUE, body |-> body, pc |-> "done", status |-> 0,
              detail |-> "", full_cfg |-> doc]
    IN  IF body.json = "invalid"
        THEN [u EXCEPT !.status = 500,
                       !.detail = "Failed to update configuration"]
        ELSE IF body.json # "object"
        THEN [u EXCEPT !.status = 400, !.detail = "Invalid body"]
        ELSE LET verdict == _validate_media_server_config(body.value) IN
             IF ~valid(verdict)
             THEN [u EXCEPT !.status = 400, !.detail = verdict.msg]
             ELSE [u EXCEPT !.pc = "save",
                            !.full_cfg.mediaServers =
                                [shape |-> "object", value |-> body.value]]

\* A request arrives: body = await request.json() up to full_cfg = ... .
UpdateStart ==
    /\ IF upd.made THEN upd.pc = "done" ELSE TRUE
    /\ \E body \in UpdateBodies :
        upd' = update_start(body, [mediaServers |-> stored, rest |-> rest])
    /\ UNCHANGED <<stored, rest, tasks, lock, proc, vcall, net, heap, acc>>

\* ok, err = save_config(full_cfg) and the response.
UpdateSave ==
    /\ upd.made /\ upd.pc = "save"
    /\ \E ok \in BOOLEAN :
        IF ok
        THEN LET written == save_document(upd.full_cfg) IN
             /\ stored' = written.mediaServers
             /\ rest' = written.rest
             /\ upd' = [upd EXCEPT !.pc = "done", !.status = 200]
        ELSE /\ upd' = [upd EXCEPT !.pc = "done", !.status = 500,
                                   !.detail = "save_config error"]
             /\ UNCHANGED <<stored, rest>>
    /\ UNCHANGED <<tasks, lock, proc, vcall, net, heap, acc>>

\* Another writer of the configuration document changes another key.
OtherKeyWrite ==
    /\ \E v \in DOMAIN OtherKeys : OtherKeys[v] # rest /\ rest' = OtherKeys[v]
    /\ UNCHANGED <<stored, tasks, lock, proc, vcall, net, upd, heap, acc>>

InitUpdate ==
    /\ stored = [shape |-> "absent", value |-> DEFAULT_MEDIA_SERVER_CONFIG]
    /\ tasks = {}
    /\ lock = FreeLock
    /\ proc = [i \in Procs |-> IdleProc]
    /\ UnitsIdle

NextUpdate == UpdateStart \/ UpdateSave \/ OtherKeyWrite

\* Update requests one after the other, while other writers change the
\* other keys of the document.
SpecUpdate == InitUpdate /\ [][NextUpdate]_vars


\* ------------------------------------------------ the configuration accessor
\* The dict objects _get_media_server_config works on, by address: the
\* built-in defaults and their two server dicts, the document get_config()
\* returns, its mediaServers section and the section's two server dicts, and
\* the dicts the call creates.
Addr ==
    [defaults |-> 1, default_jellyfin |-> 2, default_plex |-> 3,
     cfg |-> 4, section |-> 5, section_jellyfin |-> 6, section_plex |-> 7,
     empty |-> 8, merged |-> 9, merged_jellyfin |-> 10, merged_plex |-> 11]
Addresses == {Addr[n] : n \in DOMAIN Addr}

\* The objects that exist before the call.
Given ==
    {Addr.defaults, Addr.default_jellyfin, Addr.default_plex, Addr.cfg,
     Addr.section, Addr.section_jellyfin, Addr.section_plex}

ServerKeys == {"jellyfin", "plex"}
FlagKeys == {"triggerOnQueueEmpty", "intervalEnabled", "intervalSeconds"}
ServerFields == {"enabled", "url"}
AllKeys == {"mediaServers"} \cup ServerKeys \cup FlagKeys \cup ServerFields

\* A value is a reference to a dict or a scalar: 0 is a falsy one (None,
\* False, ""), 1 is True, 2 a text or a number. Absent: the key is not there.
Ref(a) == [ref |-> TRUE, v |-> a]
Val(n) == [ref |-> FALSE, v |-> n]
Absent == Val(-1)
Scalars == {Val(0), Val(1), Val(2)}

\* A dict holds a value or Absent under every key.
EmptyDict == [k \in AllKeys |-> Absent]

\* bool(x): a dict with no key is falsy.
truthy(h, x) ==
    IF x.ref THEN \E k \in AllKeys : h[x.v][k] # Absent ELSE x.v >= 1

\* The objects of the built-in defaults.
DefaultObjects ==
    [a \in Addresses |->
        CASE a = Addr.defaults ->
                [k \in AllKeys |->
                    IF k = "jellyfin" THEN Ref(Addr.default_jellyfin)
                    ELSE IF k = "plex" THEN Ref(Addr.default_plex)
                    ELSE IF k \in DOMAIN DEFAULT_MEDIA_SERVER_CONFIG
                    THEN Val(IF DEFAULT_MEDIA_SERVER_CONFIG[k] THEN 1 ELSE 0)
                    ELSE Absent]
          [] a = Addr.default_jellyfin ->
                [k \in AllKeys |->
                    IF k \in DOMAIN DEFAULT_MEDIA_SERVER_CONFIG.jellyfin
                    THEN Val(IF DEFAULT_MEDIA_SERVER_CONFIG.jellyfin[k]
                             THEN 1 ELSE 0)
                    ELSE Absent]
          [] a = Addr.default_plex ->
                [k \in AllKeys |->
                    IF k \in DOMAIN DEFAULT_MEDIA_SERVER_CONFIG.plex
                    THEN Val(IF DEFAULT_MEDIA_SERVER_CONFIG.plex[k]
                             THEN 1 ELSE 0)
                    ELSE Absent]
          [] OTHER -> EmptyDict]

\* What a stored section holds under jellyfin or plex: nothing, a scalar, or
\* a dict with any of the fields.
ServerDicts == [ServerFields -> {Absent, Val(0), Val(1)}]
StoredServers ==
    {[kind |-> "absent", fields |-> [f \in ServerFields |-> Absent]],
     [kind |-> "scalar", fields |-> [f \in ServerFields |-> Absent]]}
    \cup {[kind |-> "dict", fields |-> d] : d \in ServerDicts}

\* The documents get_config() returns: mediaServers is not there, is null, is
\* a text, or is a dict.
StoredDocuments ==
    {[shape |-> sh, jellyfin |-> sv, plex |-> sv, flags |-> fl] :
        sh \in {"absent", "null", "text"},
        sv \in {[kind |-> "absent", fields |-> [f \in ServerFields |-> Absent]]},
        fl \in {[k \in FlagKeys |-> Absent]}}
    \cup [shape : {"dict"}, jellyfin : StoredServers, plex : StoredServers,
          flags : [FlagKeys -> {Absent, Val(0), Val(1)}]]

\* The objects of document d next to those of the defaults.
HeapOf(d) ==
    LET server(sv, a) ==
            CASE sv.kind = "absent" -> Absent
              [] sv.kind = "scalar" -> Val(2)
              [] OTHER -> Ref(a)
        fields(sv) ==
            [k \in AllKeys |-> IF k \in ServerFields THEN sv.fields[k]
                               ELSE Absent]
    IN  [a \in Addresses |->
            CASE a = Addr.cfg ->
                    [EmptyDict EXCEPT !["mediaServers"] =
                        CASE d.shape = "absent" -> Absent
                          [] d.shape = "null"   -> Val(0)
                          [] d.shape = "text"   -> Val(2)
                          [] OTHER              -> Ref(Addr.section)]
              [] a = Addr.section ->
                    [k \in AllKeys |->
                        IF k = "jellyfin"
                        THEN server(d.jellyfin, Addr.section_jellyfin)
                        ELSE IF k = "plex"
                        THEN server(d.plex, Addr.section_plex)
                        ELSE IF k \in FlagKeys THEN d.flags[k]
                        ELSE Absent]
              [] a = Addr.section_jellyfin -> fields(d.jellyfin)
              [] a = Addr.section_plex     -> fields(d.plex)
              [] OTHER -> DefaultObjects[a]]

\* merged is the defaults dict itself.
dict_alias(h, a, fresh) == [heap |-> h, at |-> a]

\* a.copy(): a new dict with the keys and the values (not copies of them).
dict_copy(h, a, fresh) == [heap |-> [h EXCEPT ![fresh] = h[a]], at |-> fresh]

\* {**a, **b}: a new dict with a's items, then b's.
dict_overlay(h, a, b, fresh) ==
    [heap |-> [h EXCEPT ![fresh] = [k \in AllKeys |->
                  IF h[b][k] # Absent THEN h[b][k] ELSE h[a][k]]],
     at |-> fresh]

\* The loop for k, v in ms.items() over the keys not yet visited.
RECURSIVE merge_items(_, _, _, _)
merge_items(h, merged, ms, keys) ==
    IF keys = {} THEN [heap |-> h, raised |-> FALSE]
    ELSE LET k == CHOOSE x \in keys : TRUE
             v == h[ms][k]
         IN  IF v.ref /\ k \in ServerKeys
             THEN IF ~h[merged][k].ref
                  THEN [heap |-> h, raised |-> TRUE]
                  ELSE LET o == dict_overlay(h, h[merged][k].v, v.v,
                                    IF k = "jellyfin"
                                    THEN Addr.merged_jellyfin
                                    ELSE Addr.merged_plex)
                       IN  merge_items(
                               [o.heap EXCEPT ![merged][k] = Ref(o.at)],
                               merged, ms, keys \ {k})
             ELSE merge_items([h EXCEPT ![merged][k] = v],
                              merged, ms, keys \ {k})

\* _get_media_server_config() on the objects h: the objects after the call,
\* whether it raised, and the dict it returns.
merged_config(h) ==
    LET got == h[Addr.cfg]["mediaServers"]
        ms  == IF truthy(h, got) THEN got ELSE Ref(Addr.empty)
        c   == dict_copy(h, Addr.defaults, Addr.merged)
    IN  IF ~ms.ref
        THEN [heap |-> c.heap, raised |-> TRUE, result |-> Absent]
        ELSE LET m == merge_items(c.heap, c.at, ms.v,
                          {k \in AllKeys : c.heap[ms.v][k] # Absent})
             IN  [heap |-> m.heap, raised |-> m.raised,
                  result |-> IF m.raised THEN Absent ELSE Ref(c.at)]

\* get_media_servers, or any other caller, calls _get_media_server_config().
GetMediaServers ==
    /\ ~acc.made
    /\ LET r == merged_config(heap) IN
        /\ heap' = r.heap
        /\ acc' = [made |-> TRUE, raised |-> r.raised, result |-> r.result]
    /\ UNCHANGED <<scanVars, vcall, net, rest, upd>>

InitAccessor ==
    /\ stored = [shape |-> "absent", value |-> DEFAULT_MEDIA_SERVER_CONFIG]
    /\ tasks = {}
    /\ lock = FreeLock
    /\ proc = [i \in Procs |-> IdleProc]
    /\ vcall = NoCall
    /\ net = NoCall
    /\ rest = OtherKeys[1]
    /\ upd = NoCall
    /\ \E d \in StoredDocuments : heap = HeapOf(d)
    /\ acc = NoCall

NextAccessor == GetMediaServers

\* _get_media_server_config on every stored document.
SpecAccessor == InitAccessor /\ [][NextAccessor]_vars


\* ================================================================== claims
Auto(i) == proc[i].kind \in Automatic

\* The invocation is in its remote-trigger phase: between the start of its
\* Jellyfin trigger call and the end of its Plex trigger call.
InPhase(i) == Auto(i) /\ proc[i].pc \in {"jelly", "plex"}

\* C1 (as claimed): at most one automatic invocation at a time is in its
\* remote-trigger phase.
C1_OneScanInFlight ==
    \A i, j \in Procs : (InPhase(i) /\ InPhase(j)) => i = j

\* C1 (amended): two automatic invocations are in their remote-trigger phase
\* at the same time only if one of them went on without the lock after a
\* lock-store error, or the key one of them set was removed before its own
\* release (by the expiry, or by another invocation's delete).
C1_OneLockedScanInFlight ==
    \A i, j \in Procs :
        (i # j /\ InPhase(i) /\ InPhase(j)) =>
            \/ proc[i].acq = "error" \/ proc[j].acq = "error"
            \/ proc[i].lost \/ proc[j].lost

\* An interval scan is in its trigger phase under the lock while a queue-empty
\* scan has been refused the lock.
C1_Witness ==
    \E i, j \in Procs :
        /\ i # j
        /\ InPhase(i) /\ proc[i].kind = "interval"
        /\ proc[i].acq = "ok" /\ ~proc[i].lost
        /\ proc[j].kind = "queue_empty" /\ proc[j].pc = "done"
        /\ proc[j].acq = "held"

C2_Inv ==
    \A i \in Procs : Auto(i) =>
        /\ (proc[i].acq = "ok" /\ proc[i].pc = "done") => proc[i].del # "none"
        /\ proc[i].del # "none" => (proc[i].acq = "ok" /\ proc[i].pc = "done")
        /\ (proc[i].jelly # "none" \/ proc[i].plex # "none")
                => proc[i].acq \in {"ok", "error"}
        /\ (proc[i].acq = "ok" /\ proc[i].pc # "done")
                => proc[i].pc \in {"jelly", "plex", "release"}

C2_Act ==
    \A i \in Procs :
        /\ (proc[i].acq = "none" /\ proc'[i].acq = "ok")
                => (~lock.held /\ lock'.held)
        /\ (proc[i].del = "none" /\ proc'[i].del = "ok") => ~lock'.held

\* C2: an automatic invocation that acquired the lock issues the delete on
\* every exit path (both triggers succeeded, Jellyfin failed, Plex failed),
\* after its trigger calls and never before; its remote calls happen after
\* its acquire; the acquire takes the key from absent to present and a delete
\* that succeeds leaves it absent.
C2_ReleaseOnEveryExit == []C2_Inv /\ [][C2_Act]_vars

\* An invocation that acquired the lock has returned after a Jellyfin failure
\* and its delete went through.
C2_Witness ==
    \E i \in Procs :
        /\ Auto(i) /\ proc[i].pc = "done" /\ proc[i].acq = "ok"
        /\ proc[i].jelly = "failed" /\ proc[i].del = "ok" /\ ~lock.held

\* C3 (as claimed): an automatic invocation never raises to its caller.
C3_NeverRaises ==
    \A i \in Procs : Auto(i) => proc[i].ret # "raised"

C4_Inv ==
    \A i \in Procs : (Auto(i) /\ proc[i].acq = "held") =>
        /\ proc[i].pc = "done" /\ proc[i].ret = "false"
        /\ proc[i].jelly = "none" /\ proc[i].plex = "none"
        /\ proc[i].del = "none"

C4_Act ==
    \A i \in Procs :
        (proc[i].acq # "held" /\ proc'[i].acq = "held")
            => (lock.held /\ lock' = lock)

\* C4: an automatic invocation whose SET NX finds the key present returns
\* False, has called neither trigger client, issues no delete and leaves the
\* key as it was.
C4_RefusedCallerBacksOff == []C4_Inv /\ [][C4_Act]_vars

\* Two callers raced: one has been refused and has returned, the other holds
\* the lock and is triggering.
C4_Witness ==
    \E i, j \in Procs :
        /\ i # j
        /\ Auto(i) /\ proc[i].acq = "held" /\ proc[i].ret = "false"
        /\ InPhase(j) /\ proc[j].acq = "ok"
        /\ lock.held /\ lock.owner = j

\* C5 (as claimed): in every invocation whose Jellyfin trigger failed, the
\* Plex trigger is attempted all the same.
C5_PlexAttemptedAfterJellyfinFailure ==
    \A i \in Procs :
        (proc[i].jelly = "failed" /\ proc[i].pc \in {"release", "done"})
            => proc[i].plex # "none"

\* C6: an automatic invocation whose acquire attempt raised goes on to the
\* trigger clients (Jellyfin, then Plex when Jellyfin did not raise) with
\* SCAN_LOCK_KEY cleared, and never issues a delete.
C6_FailOpenNoRelease ==
    \A i \in Procs : (Auto(i) /\ proc[i].acq = "error") =>
        /\ proc[i].pc \in {"jelly", "plex", "release", "done"}
        /\ proc[i].pc # "done" => proc[i].SCAN_LOCK_KEY = "None"
        /\ proc[i].pc # "jelly" => proc[i].jelly # "none"
        /\ (proc[i].pc \in {"release", "done"} /\ proc[i].jelly # "failed")
                => proc[i].plex # "none"
        /\ proc[i].del = "none"

\* A fail-open invocation has triggered both servers and returned True while
\* the key, held by someone else, is still there.
C6_Witness ==
    \E i \in Procs :
        /\ Auto(i) /\ proc[i].acq = "error" /\ proc[i].pc = "done"
        /\ proc[i].ret = "true" /\ proc[i].jelly = "triggered"
        /\ proc[i].plex = "triggered" /\ lock.held

\* The entry point's own flag is off in the configuration it reads.
C7_FlagOff(k) ==
    LET r == _get_media_server_config(stored) IN
    /\ ~r.raised
    /\ \/ k = "queue_empty" /\ ~r.cfg.triggerOnQueueEmpty
       \/ k = "interval" /\ ~r.cfg.intervalEnabled

C7_Act ==
    \A i \in Procs :
        LET p == proc[i]
            q == proc'[i]
        IN  ( /\ q # p
              /\ \/ p.pc = "cfg" /\ C7_FlagOff(p.kind)
                 \/ p.pc = "queue" /\ Auto(i) /\ ~queue_is_empty(tasks) )
            => /\ q.pc = "done" /\ q.ret = "false"
               /\ q.acq = "none" /\ q.del = "none"
               /\ q.jelly = "none" /\ q.plex = "none"
               /\ lock' = lock

\* C7: an automatic invocation that finds its flag off, or the queue not
\* empty, returns False in that step: no SET, no delete, no remote request,
\* and the key is unchanged.
C7_GatedReturnHasNoEffect == [][C7_Act]_vars

\* A queue-empty invocation has returned False at the gate, flag off, while
\* the key is held.
C7_Witness ==
    \E i \in Procs :
        /\ proc[i].kind = "queue_empty" /\ proc[i].pc = "done"
        /\ proc[i].ret = "false" /\ proc[i].acq = "none"
        /\ stored.shape = "object" /\ ~stored.value.triggerOnQueueEmpty
        /\ tasks = {} /\ lock.held

FlipQueueEmpty(cfg) == [cfg EXCEPT !.triggerOnQueueEmpty = ~@]
FlipInterval(cfg) == [cfg EXCEPT !.intervalEnabled = ~@]
HideQueueEmpty(p) == [p EXCEPT !.ms_cfg.triggerOnQueueEmpty = TRUE]
HideInterval(p) == [p EXCEPT !.ms_cfg.intervalEnabled = TRUE]

\* The next step of invocation i, whatever the collaborators answer, does the
\* same (same lock operation, same remote call, same result, same next
\* statement) when the flag that Flip flips has the other value in the stored
\* configuration and in the configuration the invocation has read.
SameStepWhenFlipped(Flip(_), Hide(_), i) ==
    LET p  == proc[i]
        p2 == [p EXCEPT !.ms_cfg = Flip(@)]
        d2 == [stored EXCEPT !.value = Flip(@)]
    IN  CASE p.pc = "cfg" ->
                Hide(ReadConfigStep(p, stored)) = Hide(ReadConfigStep(p2, d2))
          [] p.pc = "queue" ->
                Hide(QueueCheckStep(p, tasks)) = Hide(QueueCheckStep(p2, tasks))
          [] p.pc = "lock" ->
                \A a \in {"reply", "error"} :
                    LET r  == AcquireStep(i, p, lock, a)
                        r2 == AcquireStep(i, p2, lock, a)
                    IN  Hide(r.p) = Hide(r2.p) /\ r.lock = r2.lock
          [] p.pc = "jelly" ->
                \A o \in TriggerOutcomes :
                    Hide(JellyfinStep(p, o)) = Hide(JellyfinStep(p2, o))
          [] p.pc = "plex" ->
                \A o \in TriggerOutcomes :
                    Hide(PlexStep(p, o)) = Hide(PlexStep(p2, o))
          [] p.pc = "release" ->
                \A o \in StoreOutcomes :
                    LET r  == ReleaseStep(p, lock, o)
                        r2 == ReleaseStep(p2, lock, o)
                    IN  Hide(r.p) = Hide(r2.p) /\ r.lock = r2.lock
          [] OTHER -> TRUE

\* C8: at every statement of an interval invocation the step it takes is the
\* same with triggerOnQueueEmpty on and off, and at every statement of a
\* queue-empty invocation the step is the same with intervalEnabled on and
\* off: the other entry point's flag never decides a lock operation, a remote
\* call or the result.
C8_OtherFlagIgnored ==
    \A i \in Procs :
        /\ proc[i].kind = "interval"
                => SameStepWhenFlipped(FlipQueueEmpty, HideQueueEmpty, i)
        /\ proc[i].kind = "queue_empty"
                => SameStepWhenFlipped(FlipInterval, HideInterval, i)

\* An interval invocation that read triggerOnQueueEmpty = false has triggered
\* Jellyfin and is about to trigger Plex.
C8_Witness ==
    \E i \in Procs :
        /\ proc[i].kind = "interval" /\ proc[i].pc = "plex"
        /\ proc[i].jelly = "triggered" /\ proc[i].acq = "ok"
        /\ ~proc[i].ms_cfg.triggerOnQueueEmpty

C9_Inv ==
    \A i \in Procs : proc[i].kind = "manual" =>
        /\ proc[i].pc \in {"cfg", "jelly", "plex", "done"}
        /\ proc[i].acq = "none" /\ proc[i].del = "none"
        /\ proc[i].SCAN_LOCK_KEY = "unset"
        /\ proc[i].pc = "plex" => proc[i].jelly \in {"skipped", "triggered"}
        /\ proc[i].plex # "none" => proc[i].jelly \in {"skipped", "triggered"}
        /\ (proc[i].pc = "done" /\ proc[i].ret # "raised")
                => /\ proc[i].jelly # "none"
                   /\ proc[i].jelly # "failed" => proc[i].plex # "none"

C9_Act ==
    \A i \in Procs :
        LET p == proc[i]
            q == proc'[i]
        IN  (p.kind = "manual" /\ q.kind = "manual" /\ q # p) =>
                /\ lock' = lock
                /\ (p.pc = "cfg" /\ stored.shape # "malformed") => q.pc = "jelly"

\* C9: a manual scan never sets or deletes the key and never changes it, has
\* no queue check and no lock step, and once it has read the configuration it
\* calls the Jellyfin trigger and, when that returned, the Plex trigger,
\* whatever the key, the tasks and the two flags are.
C9_ManualScanUngated == []C9_Inv /\ [][C9_Act]_vars

\* A manual scan has triggered both servers while the key is held, a download
\* is active and both flags are off.
C9_Witness ==
    \E i \in Procs :
        /\ proc[i].kind = "manual" /\ proc[i].pc = "done"
        /\ proc[i].ret = "response"
        /\ proc[i].jelly = "triggered" /\ proc[i].plex = "triggered"
        /\ lock.held
        /\ \E t \in tasks : t.download_type = "album" /\ t.status = "queued"
        /\ stored.shape = "object"
        /\ ~stored.value.triggerOnQueueEmpty /\ ~stored.value.intervalEnabled

\* The statuses the claim lists as active.
C10_ClaimedActive ==
    {"initializing", "processing", "downloading", "progress",
     "track_progress", "real_time", "retrying", "queued", "pending"}

\* Some track, album or playlist task has an active status.
C10_Blocking(ts) ==
    \E t \in ts :
        /\ t.download_type \in {"track", "album", "playlist"}
        /\ t.status \in C10_ClaimedActive

\* C10: queue_is_empty is false exactly when some track, album or playlist
\* task has a status of the active set: an invocation that has passed the
\* queue check saw no such task, and one turned away with False saw one.
C10_QueueIsEmpty ==
    /\ queue_is_empty(tasks) = ~C10_Blocking(tasks)
    /\ \A i \in Procs :
        /\ proc[i].pc = "lock" => ~C10_Blocking(tasks)
        /\ (proc[i].pc = "done" /\ proc[i].ret = "false") => C10_Blocking(tasks)

\* An invocation has passed the queue check although a download task has an
\* unrecognized status and a task of another type is downloading.
C10_Witness ==
    /\ proc[1].pc = "lock"
    /\ \E t \in tasks : t.download_type = "playlist" /\ t.status = "mystery"
    /\ \E t \in tasks : t.download_type = "episode" /\ t.status = "downloading"

\* The value of intervalSeconds the claim speaks of, in tenths: 3600 when the
\* key is absent.
C11_Tenths(c) ==
    CASE c.intervalSeconds.k = "absent" -> 36000
      [] c.intervalSeconds.k = "float"  -> c.intervalSeconds.n
      [] OTHER                          -> 10 * c.intervalSeconds.n

C11_IsNumber(c) ==
    c.intervalSeconds.k \in {"absent", "int", "float", "intstr"}

C11_Enabled(e) == e.k = "object" /\ e.enabled = "true"

\* The trimmed url starts with http:// or https://.
C11_UrlOk(e) == e.url.k = "str" /\ e.url.scheme \in {"http://", "https://"}

C11_KeyOk(e) == e.apiKey = "key"

\* The five rules in their order, each with the message of its failure.
C11_Rules(c) ==
    << <<C11_IsNumber(c) /\ C11_Tenths(c) >= 600,
         "intervalSeconds must be >= 60">>,
       <<C11_Enabled(c.jellyfin) => C11_UrlOk(c.jellyfin),
         "jellyfin url must start with http:// or https://">>,
       <<C11_Enabled(c.jellyfin) => C11_KeyOk(c.jellyfin),
         "jellyfin apiKey required when enabled">>,
       <<C11_Enabled(c.plex) => C11_UrlOk(c.plex),
         "plex url must start with http:// or https://">>,
       <<C11_Enabled(c.plex) => C11_KeyOk(c.plex),
         "plex apiKey required when enabled">> >>

\* (true, "") when every rule holds, else false with the message of the first
\* rule that fails.
C11_Expected(c) ==
    LET rules  == C11_Rules(c)
        failed == {n \in DOMAIN rules : ~rules[n][1]}
    IN  IF failed = {} THEN [ok |-> TRUE, msg |-> ""]
        ELSE [ok  |-> FALSE,
              msg |-> rules[CHOOSE n \in failed : \A m \in failed : n <= m][2]]

C11_Result == [ok |-> vcall.ok, msg |-> vcall.msg]

\* C11 (as claimed): for every body, validate returns (true, "") exactly when
\* the five rules hold and otherwise false with the message of the first
\* failing rule, in the order intervalSeconds, jellyfin url, jellyfin apiKey,
\* plex url, plex apiKey.
C11_ValidateFirstFailure ==
    vcall.made => C11_Result = C11_Expected(vcall.ms_cfg)

\* The fields the rules read have the types of the data model: intervalSeconds
\* is absent or a number (or an integer literal), no server entry is a text,
\* and the url of an enabled server is absent, null or a string.
C11_WellTyped(c) ==
    /\ C11_IsNumber(c)
    /\ c.jellyfin.k # "text" /\ c.plex.k # "text"
    /\ C11_Enabled(c.jellyfin) => c.jellyfin.url.k # "number"
    /\ C11_Enabled(c.plex) => c.plex.url.k # "number"

\* C11 (amended): for every body whose fields have the types of the data
\* model, validate returns (true, "") exactly when the five rules hold and
\* otherwise false with the message of the first failing rule in the fixed
\* order; a disabled server's url and apiKey are never checked; every body
\* whose intervalSeconds is a number below 60 fails with the intervalSeconds
\* message whatever its server entries are; every other body fails, with the
\* message of an earlier rule or of the exception.
C11_ValidateTypedFirstFailure ==
    vcall.made =>
        LET c == vcall.ms_cfg IN
        /\ C11_WellTyped(c) => C11_Result = C11_Expected(c)
        /\ (C11_IsNumber(c) /\ C11_Tenths(c) < 600)
                => C11_Result = [ok  |-> FALSE,
                                 msg |-> "intervalSeconds must be >= 60"]
        /\ ~C11_WellTyped(c) => (~vcall.ok /\ vcall.msg # "")
        /\ \A e \in {c.jellyfin, c.plex} :
            (C11_WellTyped(c) /\ vcall.ok /\ ~C11_Enabled(e)) =>
                \A u \in UrlValues, a \in ApiKeyValues :
                    LET e2 == IF e.k = "object"
                              THEN [e EXCEPT !.url = u, !.apiKey = a] ELSE e
                        c2 == IF e = c.jellyfin
                              THEN [c EXCEPT !.jellyfin = e2]
                              ELSE [c EXCEPT !.plex = e2]
                    IN  _validate_media_server_config(c2).ok

\* intervalSeconds is 59 and the enabled Jellyfin entry has a url that is no
\* http url and no apiKey: the message is the one of intervalSeconds.
C11_Witness ==
    /\ vcall.made
    /\ vcall.ms_cfg.intervalSeconds = [k |-> "int", n |-> 59]
    /\ C11_Enabled(vcall.ms_cfg.jellyfin)
    /\ vcall.ms_cfg.jellyfin.url.k = "str"
    /\ vcall.ms_cfg.jellyfin.url.scheme = "other"
    /\ vcall.ms_cfg.jellyfin.apiKey = "empty"
    /\ C11_WellTyped(vcall.ms_cfg)
    /\ ~vcall.ok /\ vcall.msg = "intervalSeconds must be >= 60"

\* The Plex client has been called with plex enabled, a url and a
\* librarySectionIds that is a string, null or absent.
C12_Applies ==
    /\ net.made /\ net.client = "plex"
    /\ net.ms_cfg.plex.k = "object" /\ net.ms_cfg.plex.enabled = "true"
    /\ net.ms_cfg.plex.url = "str"
    /\ net.ms_cfg.plex.librarySectionIds.k # "list"

\* The places <<a, b>> of the non-empty trimmed ids in s: no comma inside, no
\* blank at either end, and only blanks between the id and the commas (or
\* the ends of s) around it.
C12_IdPlaces(s) ==
    {ab \in (1..Len(s)) \X (1..Len(s)) :
        /\ ab[1] <= ab[2]
        /\ \A n \in ab[1]..ab[2] : s[n] # ","
        /\ s[ab[1]] # " " /\ s[ab[2]] # " "
        /\ \A n \in 1..(ab[1] - 1) :
            s[n] = " " \/ \E m \in n..(ab[1] - 1) : s[m] = ","
        /\ \A n \in (ab[2] + 1)..Len(s) :
            s[n] = " " \/ \E m \in (ab[2] + 1)..n : s[m] = ","}

\* The requests the claim expects: one per id in the order of the list, or
\* the one to "all".
C12_Expected(s) ==
    LET places == C12_IdPlaces(s)
        nth(i) == CHOOSE ab \in places :
                    Cardinality({cd \in places : cd[1] < ab[1]}) = i - 1
    IN  IF places = {} THEN <<AllSections>>
        ELSE [i \in 1..Cardinality(places) |->
                SubSeq(s, nth(i)[1], nth(i)[2])]

C12_Failing == {n \in DOMAIN net.results : net.results[n].status >= 400}

\* C12 (as claimed): a Plex call with plex enabled issues exactly the expected
\* requests in their order, all of them before it signals any failure, and
\* when a response has a status >= 400 its error names the first failing
\* section in request order and that section's status.
C12_PlexRequestsAllBeforeFailure ==
    C12_Applies =>
        LET expected == C12_Expected(net.ms_cfg.plex.librarySectionIds.s) IN
        /\ Len(net.log) <= Len(expected)
        /\ net.log = SubSeq(expected, 1, Len(net.log))
        /\ net.pc # "done" => net.out = "none"
        /\ net.pc = "done" =>
            /\ net.log = expected
            /\ C12_Failing # {} => net.out = "error502"
            /\ net.out = "error502" =>
                LET n == CHOOSE n \in C12_Failing :
                            \A m \in C12_Failing : n <= m
                IN  /\ net.section = net.results[n].section
                    /\ net.status = net.results[n].status
                    /\ net.section = net.log[n]

\* The entry of the server the called client is for.
C13_Entry == net.ms_cfg[net.client]

\* The server of the called client is disabled: its entry is an object whose
\* enabled is false.
C13_Disabled ==
    net.made /\ C13_Entry.k = "object" /\ C13_Entry.enabled = "false"

\* C13: a trigger client whose server is disabled returns {skipped: true} at
\* once and issues no request, whatever its url and librarySectionIds are and
\* whatever the entry of the other server is.
C13_DisabledClientSkips ==
    C13_Disabled =>
        /\ net.pc = "done" /\ net.out = "skipped"
        /\ net.log = <<>> /\ net.results = <<>> /\ net.todo = <<>>

\* The Jellyfin client, disabled and with a url that is no string, has
\* returned while Plex is enabled with two sections.
C13_Witness ==
    /\ C13_Disabled /\ net.client = "jellyfin"
    /\ net.ms_cfg.jellyfin.url = "number"
    /\ enabled(net.ms_cfg.plex)
    /\ net.ms_cfg.plex.librarySectionIds.s = <<"1", ",", "2">>
    /\ net.out = "skipped" /\ net.log = <<>>

\* The request's body is no object, or it is one that fails validation.
C14_Rejectable(u) ==
    \/ u.body.json = "other"
    \/ u.body.json = "object"
        /\ ~_validate_media_server_config(u.body.value).ok

C14_Inv ==
    /\ upd.made =>
        /\ C14_Rejectable(upd) => (upd.pc = "done" /\ upd.status = 400)
        /\ upd.status = 400 => upd.pc = "done"
        /\ upd.pc = "save" => ~C14_Rejectable(upd)
    /\ stored.shape = "object" =>
        _validate_media_server_config(stored.value).ok

C14_Act ==
    /\ (upd' # upd /\ C14_Rejectable(upd')) =>
            (stored' = stored /\ rest' = rest)
    /\ stored' # stored =>
            /\ upd.made /\ upd.pc = "save" /\ ~C14_Rejectable(upd)
            /\ stored' = [shape |-> "object", value |-> upd.body.value]

\* C14: a request whose body is JSON but no object, or fails validation, is
\* answered 400 in the step it arrives, without getting to save_config: the
\* document is as it was; the section is only ever written by a request that
\* passed validation and then holds that request's body, so the stored
\* section is at all times absent or a body that passes validation.
C14_RejectedUpdateLeavesDocument == []C14_Inv /\ [][C14_Act]_vars

\* A request with intervalSeconds 59 has been answered 400 while the section
\* holds the body of an earlier request that was accepted.
C14_Witness ==
    /\ upd.made /\ upd.pc = "done" /\ upd.status = 400
    /\ upd.detail = "intervalSeconds must be >= 60"
    /\ stored.shape = "object"
    /\ stored.value.jellyfin.k = "object"
    /\ stored.value # upd.body.value

\* C20 (as claimed): the step in which an update succeeds puts the request's
\* body in the place of the whole mediaServers section and leaves the other
\* keys of the document as they were just before it, also when another writer
\* changed them after the request read the document.
C20_UpdateReplacesSectionOnly ==
    [][ (IF upd.made THEN upd.pc = "save" ELSE FALSE) =>
            (upd'.status = 200 =>
                /\ stored' = [shape |-> "object", value |-> upd.body.value]
                /\ rest' = rest) ]_vars

\* A value with what it refers to: a dict's items, or the scalar.
C15_Deep(x) ==
    IF x.ref THEN [isdict |-> TRUE, items |-> heap[x.v], v |-> 0]
    ELSE [isdict |-> FALSE, items |-> EmptyDict, v |-> x.v]

\* The items of the stored mediaServers section: none when it is absent, null
\* or empty.
C15_Section ==
    LET got == heap[Addr.cfg]["mediaServers"] IN
    IF got.ref THEN heap[got.v] ELSE EmptyDict

C15_Inv ==
    acc.made =>
        LET got      == heap[Addr.cfg]["mediaServers"]
            section  == C15_Section
            defaults == heap[Addr.defaults]
        IN  /\ acc.raised <=> (~got.ref /\ got.v >= 1)
            /\ ~acc.raised =>
                LET merged == heap[acc.result.v] IN
                /\ acc.result.ref /\ acc.result.v \notin Given
                /\ (\A k \in AllKeys : section[k] = Absent) =>
                    \A k \in AllKeys :
                        C15_Deep(merged[k]) = C15_Deep(defaults[k])
                /\ \A k \in ServerKeys : section[k].ref =>
                    /\ merged[k].ref
                    /\ \A f \in AllKeys :
                        heap[merged[k].v][f] =
                            IF heap[section[k].v][f] # Absent
                            THEN heap[section[k].v][f]
                            ELSE heap[defaults[k].v][f]
                /\ \A k \in AllKeys :
                    (section[k] # Absent /\ ~(k \in ServerKeys /\ section[k].ref))
                        => merged[k] = section[k]
                /\ \A k \in AllKeys : section[k] = Absent =>
                    C15_Deep(merged[k]) = C15_Deep(defaults[k])

C15_Act == \A a \in Given : heap'[a] = heap[a]

\* C15: for a stored section that is absent, null or a dict the call returns
\* a new dict: equal to the defaults when the section has no item; under
\* jellyfin and plex, when the section holds a dict there, a dict with the
\* section's fields and, for the fields it lacks, the default's; under every
\* other key of the section the section's value as it is, also where the
\* defaults have no such key; under every key the section lacks the
\* default's value. No object that existed before the call (the defaults and
\* their server dicts, the document, its section and its server dicts) is
\* changed by it.
C15_MergedOverDefaults == []C15_Inv /\ [][C15_Act]_vars

\* The call returned for a section whose jellyfin has a url and no enabled,
\* whose plex is a text and which has an intervalSeconds.
C15_Witness ==
    /\ acc.made /\ ~acc.raised
    /\ C15_Section["jellyfin"].ref
    /\ heap[C15_Section["jellyfin"].v]["enabled"] = Absent
    /\ heap[C15_Section["jellyfin"].v]["url"] = Val(1)
    /\ C15_Section["plex"] = Val(2)
    /\ C15_Section["intervalSeconds"] = Val(1)
    /\ heap[heap[acc.result.v]["jellyfin"].v]["enabled"] = Val(0)
    /\ heap[heap[acc.result.v]["jellyfin"].v]["url"] = Val(1)
    /\ heap[acc.result.v]["plex"] = Val(2)
    /\ heap[acc.result.v]["intervalSeconds"] = Val(1)
    /\ heap[acc.result.v]["triggerOnQueueEmpty"] = Val(1)

\* The invocation sent a refresh request that a media server accepted.
C16_Scanned(i) == proc[i].jelly = "triggered" \/ proc[i].plex = "triggered"

\* C16 (as claimed): an automatic invocation that has returned a boolean
\* returned True exactly when it caused a refresh request to be sent: not
\* when both servers are disabled, and also when the Jellyfin request went
\* through and the Plex request failed.
C16_ReturnTellsWhetherScanned ==
    \A i \in Procs :
        (Auto(i) /\ proc[i].pc = "done" /\ proc[i].ret \in {"true", "false"})
            => (proc[i].ret = "true" <=> C16_Scanned(i))

C17_Inv ==
    \A i \in Procs : Auto(i) =>
        /\ (proc[i].jelly # "none" \/ proc[i].plex # "none")
                => proc[i].pc \in {"jelly", "plex", "release", "done"}
        /\ proc[i].pc \in {"cfg", "queue"}
                => /\ proc[i].jelly = "none" /\ proc[i].plex = "none"
                   /\ proc[i].acq = "none"

C17_Act ==
    \A i \in Procs :
        LET p == proc[i]
            q == proc'[i]
        IN  (Auto(i) /\ q # p /\ q.kind = p.kind) =>
                /\ (q.pc = "lock" /\ p.pc # "lock")
                        => (p.pc = "queue" /\ ~C10_Blocking(tasks))
                /\ (q.pc = "jelly" /\ p.pc # "jelly") => p.pc = "lock"
                /\ (q.pc = "plex" /\ p.pc # "plex") => p.pc = "jelly"
                /\ (p.pc = "queue" /\ C10_Blocking(tasks))
                        => (q.pc = "done" /\ q.ret = "false")

C19_ReleaseOnlyOwnLock ==
    [][ \A i \in Procs :
            (proc[i].del = "none" /\ proc'[i].del = "ok" /\ lock.held)
                => lock.owner = i ]_vars

\* The key is set only when it is absent, also by a later trigger once it is
\* free, and a key that stays is the key that was set: nothing sets it again.
C18_Act ==
    /\ (lock.held /\ lock'.held) => lock'.owner \in {lock.owner, 0}
    /\ \A i \in Procs :
        (proc[i].pc = "lock" /\ proc'[i].acq \in {"ok", "held"})
            => IF lock.held
               THEN proc'[i].acq = "held" /\ lock' = lock
               ELSE proc'[i].acq = "ok" /\ lock' = [held |-> TRUE, owner |-> i]

\* C18: the scan lock is never held forever: from every state in which the
\* key is set it is eventually absent, also when its holder died before its
\* finally block or when the delete raised; the key is never set again while
\* it is held, and a trigger that finds it absent acquires it.
C18_LockNeverHeldForever == (lock.held ~> ~lock.held) /\ [][C18_Act]_vars

\* The invocation that set the key died before its finally block: the key is
\* still set.
C18_Witness ==
    \E i \in Procs :
        /\ lock.held /\ lock.owner = i
        /\ proc[i].pc = "done" /\ proc[i].ret = "crashed" /\ proc[i].acq = "ok"

====
